---- MODULE Spec2Model ----
(***************************************************************************)
(* Model of run.py, the BIDS App gear runner: initialize, create_command,  *)
(* set_up_data and execute, called once each and in that order by the      *)
(* __main__ block.  The external collaborators (utils.args, download_bids, *)
(* validate_bids, zip_output, subprocess.run) are modelled by their        *)
(* possible outcomes: return (with a value) or raise.                      *)
(***************************************************************************)
EXTENDS Integers, Sequences, FiniteSets, TLC

VARIABLES pc, config, manifest_ok, environ_file, output_dir, gear_dict,
          command, validated, entered, result, spawned, zipped, ret, msg,
          exit_status

vars == <<pc, config, manifest_ok, environ_file, output_dir, gear_dict,
          command, validated, entered, result, spawned, zipped, ret, msg,
          exit_status>>

(* ---------------- bounds ---------------- *)

\* most flags a collaborator of utils.args adds to a command
MaxFlags == 2
\* largest exit code the child process returns
MaxReturnCode == 3
\* largest signal number that kills the child (returncode = -signal)
MaxSignal == 2

(* ---------------- values ---------------- *)

\* an unbound name / a missing value, and a bound one
Unbound == <<>>
Bound(v) == <<v>>

ConfigKeys == {"gear-dry-run", "gear-save-all-output"}

\* context.work_dir and context.output_dir of the platform
WorkDir == "/flywheel/v0/work"
OutputDirs == {"/flywheel/v0/output"}

\* os.path.join(context.work_dir, 'bids')
BidsPath(work_dir) ==
    IF work_dir = "/flywheel/v0/work" THEN "/flywheel/v0/work/bids"
    ELSE "bids"

\* JSON values of the environment file: strings and non-strings
JsonStr(s) == [t |-> "str", s |-> s]
JsonNum == [t |-> "num", s |-> ""]

\* what /tmp/gear_environ.json can be when initialize opens it
EnvironFiles ==
    { [kind |-> "missing",   keys |-> {},       PATH |-> JsonStr("")],
      [kind |-> "malformed", keys |-> {},       PATH |-> JsonStr("")],
      [kind |-> "object",    keys |-> {"PATH"}, PATH |-> JsonStr("/usr/bin")],
      [kind |-> "object",    keys |-> {"PATH"}, PATH |-> JsonNum] }

\* an exception object: its class and its str()
Exc(type, str) == [type |-> type, str |-> str]

ResolveError   == Exc("KeyError", "input")
ValidateError  == Exc("Exception", "invalid arguments")
BuildError     == Exc("TypeError", "bad parameter")
DownloadError  == Exc("flywheel.rest.ApiException", "download failed")
BidsError      == Exc("utils.bids.errors.BIDSExportError", "invalid layout")
SpawnError     == Exc("FileNotFoundError", "fmriprep")

\* a Python dict: d[k] = v
Put(d, k, v) == [x \in (DOMAIN d) \cup {k} |-> IF x = k THEN v ELSE d[x]]
EmptyDict == [x \in {} |-> Unbound]

Flags(n) == [i \in 1..n |-> "--flag"]

\* return codes of subprocess.run: an exit code, or minus a signal number
ReturnCodes == ((0 - MaxSignal)..(0 - 1)) \cup (0..MaxReturnCode)

(* ---------------- initialize ---------------- *)

\* open() / json.load() raise, or  k + '=' + v  raises on a non-string v
EnvironRaises(f) ==
    \/ f.kind # "object"
    \/ \E k \in f.keys : f[k].t # "str"

\* the dict json.load returns (bound to gear_dict['environ'] before the loop)
EnvironOf(f) == [k \in f.keys |-> f[k]]

\* initialize with the environment file's exception swallowed
InitializeNext_EnvironCaught(m_ok, f) ==
    IF m_ok THEN "create_command" ELSE "aborted"

\* where control goes after initialize: on to create_command, or out of the
\* program with the uncaught exception
InitializeNext(m_ok, f) ==
    IF m_ok /\ ~EnvironRaises(f) THEN "create_command" ELSE "aborted"

Initialize ==
    /\ pc = "initialize"
    /\ pc' = InitializeNext(manifest_ok, environ_file)
    /\ gear_dict' =
         IF ~manifest_ok THEN gear_dict
         ELSE LET d1 == Put(EmptyDict, "bids_path", BidsPath(WorkDir))
                  d2 == Put(d1, "errors", <<>>)
              IN  IF environ_file.kind = "object"
                  THEN Put(d2, "environ", EnvironOf(environ_file))
                  ELSE d2
    \* an uncaught exception ends the interpreter with status 1
    /\ exit_status' = IF pc' = "aborted" THEN Bound(1) ELSE exit_status
    /\ UNCHANGED <<config, manifest_ok, environ_file, output_dir, command,
                   validated, entered, result, spawned, zipped, ret, msg>>

(* ---------------- create_command ---------------- *)

InitialCommand(bids_path, out_dir) ==
    <<"fmriprep", bids_path, out_dir, "participant">>

\* the except clause of the three stages
RecordError(d, e) == Put(d, "errors", Append(d["errors"], e))

CreateCommand ==
    /\ pc = "create_command"
    /\ \E resolved \in 0..MaxFlags, expanded \in 0..MaxFlags,
          raises \in {"none", "get_inputs_and_args", "validate",
                      "build_command"} :
         LET working == InitialCommand(gear_dict["bids_path"], output_dir)
                          \o Flags(resolved)
             d1 == Put(gear_dict, "command", working)
         IN  /\ gear_dict' =
                  CASE raises = "get_inputs_and_args"
                         -> RecordError(d1, ResolveError)
                    [] raises = "validate" -> RecordError(d1, ValidateError)
                    [] raises = "build_command" -> RecordError(d1, BuildError)
                    [] OTHER -> d1
             /\ validated' = (raises \in {"none", "build_command"})
             /\ command' = IF raises = "none"
                           THEN working \o Flags(expanded)
                           ELSE working
    /\ entered' = Append(entered, "create_command")
    /\ pc' = "set_up_data"
    /\ UNCHANGED <<config, manifest_ok, environ_file, output_dir, result,
                   spawned, zipped, ret, msg, exit_status>>

(* ---------------- set_up_data ---------------- *)

SetUpData ==
    /\ pc = "set_up_data"
    /\ \E raises \in {"none", "download_bids", "validate_bids"} :
         gear_dict' =
           CASE raises = "download_bids" -> RecordError(gear_dict, DownloadError)
             [] raises = "validate_bids" -> RecordError(gear_dict, BidsError)
             [] OTHER -> gear_dict
    /\ entered' = Append(entered, "set_up_data")
    /\ pc' = "execute"
    /\ UNCHANGED <<config, manifest_ok, environ_file, output_dir, command,
                   validated, result, spawned, zipped, ret, msg, exit_status>>

(* ---------------- execute ---------------- *)

\* the dry-run test dropped
RunsCommand_Always(cfg) == TRUE

\* line 108: the subprocess is run unless gear-dry-run is set
RunsCommand(cfg) == ~cfg["gear-dry-run"]

\* a dry run that reports success
DryRunResult_Success ==
    [returncode |-> 0,
     stderr |-> "gear-dry-run is set:  Did NOT run gear code."]

\* lines 116-118: the result made up for a dry run
DryRunResult ==
    [returncode |-> 1,
     stderr |-> "gear-dry-run is set:  Did NOT run gear code."]

\* the archiver keyed on the wrong flag
SavesAllOutput_WrongKey(cfg) == cfg["gear-dry-run"]

\* line 137: zip_output is called when gear-save-all-output is set
SavesAllOutput(cfg) == cfg["gear-save-all-output"]

\* str(type(err)): the pieces that split("'") separates
StrOfType(err) == <<"<class ", err.type, ">">>

\* str(type(err)).split("'")[1]
TypeName(err) == StrOfType(err)[2]

\* lines 143-145: one line per recorded error, its type name and its str()
PreviousErrors(errors) ==
    [i \in 1..Len(errors) |-> <<TypeName(errors[i]), errors[i].str>>]

\* the override by recorded errors left out
FinalRet_NoOverride(errors, returncode) == returncode

\* every failure flattened to 1
FinalRet_Flattened(errors, returncode) ==
    IF Len(errors) > 0 \/ returncode # 0 THEN 1 ELSE 0

\* lines 140-147: the subprocess's return code, overridden by recorded errors
FinalRet(errors, returncode) ==
    IF Len(errors) > 0 THEN 1 ELSE returncode

\* the status the operating system sees for sys.exit(n)
ExitStatus(n) == n % 256

Execute ==
    /\ pc = "execute"
    /\ \E run_raises \in BOOLEAN, rc \in ReturnCodes :
         LET runs == RunsCommand(config)
             raised == runs /\ run_raises
             res == IF raised THEN Unbound
                    ELSE IF runs
                         THEN Bound([returncode |-> rc,
                                     stderr |-> IF rc = 0 THEN ""
                                                ELSE "captured stderr"])
                         ELSE Bound(DryRunResult)
             d1 == IF raised THEN RecordError(gear_dict, SpawnError)
                   ELSE gear_dict
         IN  /\ spawned' = IF runs
                           THEN Append(spawned,
                                       [args |-> gear_dict["command"],
                                        env  |-> gear_dict["environ"]])
                           ELSE spawned
             /\ result' = res
             /\ gear_dict' = d1
             \* finally:
             /\ zipped' = IF SavesAllOutput(config) THEN zipped + 1 ELSE zipped
             /\ IF res = Unbound
                THEN \* result.returncode raises UnboundLocalError, which
                     \* nothing catches: the interpreter ends with status 1
                     /\ pc' = "crashed"
                     /\ exit_status' = Bound(1)
                     /\ UNCHANGED <<ret, msg>>
                ELSE /\ ret' = Bound(FinalRet(d1["errors"], res[1].returncode))
                     /\ msg' = IF Len(d1["errors"]) > 0
                               THEN Bound(PreviousErrors(d1["errors"]))
                               ELSE msg
                     /\ pc' = "exited"
                     /\ exit_status' = Bound(ExitStatus(ret'[1]))
    /\ entered' = Append(entered, "execute")
    /\ UNCHANGED <<config, manifest_ok, environ_file, output_dir, command,
                   validated>>

(* ---------------- the program ---------------- *)

Init ==
    /\ pc = "initialize"
    /\ config \in [ConfigKeys -> BOOLEAN]
    /\ manifest_ok \in BOOLEAN
    /\ environ_file \in EnvironFiles
    /\ output_dir \in OutputDirs
    /\ gear_dict = EmptyDict
    /\ command = Unbound
    /\ validated = FALSE
    /\ entered = <<>>
    /\ result = Unbound
    /\ spawned = <<>>
    /\ zipped = 0
    /\ ret = Unbound
    /\ msg = Unbound
    /\ exit_status = Unbound

Next == Initialize \/ CreateCommand \/ SetUpData \/ Execute

Spec == Init /\ [][Next]_vars

(* ---------------- properties ---------------- *)

\* execute has run to its end: through sys.exit, or out of the finally
\* block with the uncaught exception
Finalized == pc \in {"exited", "crashed"}

Errors == IF "errors" \in DOMAIN gear_dict THEN gear_dict["errors"] ELSE <<>>

HasError(e) == \E i \in 1..Len(Errors) : Errors[i] = e

StageErrors ==
    {ResolveError, ValidateError, BuildError, DownloadError, BidsError}

HasStageError == \E e \in StageErrors : HasError(e)

\* C1: whenever execute finishes with a non-empty error list, the process
\* exit code is 1, whatever the subprocess returned.
C1_ErrorsForceExitOne ==
    (Finalized /\ Len(Errors) > 0) =>
        /\ exit_status = Bound(1)
        /\ pc = "exited" => ret = Bound(1)

\* the subprocess returned 0, an earlier stage had failed, the exit code is 1
C1_Witness ==
    /\ pc = "exited"
    /\ Len(Errors) > 0
    /\ spawned # <<>>
    /\ result[1].returncode = 0
    /\ exit_status = Bound(1)

\* C2: with an empty error list, the exit code execute computes is the
\* return code N of the subprocess it ran, for N = 0 and N # 0 alike.
C2_ReturnCodePassedThrough ==
    (pc = "exited" /\ Len(Errors) = 0 /\ spawned # <<>>) =>
        ret = Bound(result[1].returncode)

\* a subprocess that returned 2, passed through as 2
C2_Witness ==
    /\ pc = "exited"
    /\ Len(Errors) = 0
    /\ spawned # <<>>
    /\ result[1].returncode = 2
    /\ ret = Bound(2)

FullSuccess ==
    /\ Len(Errors) = 0
    /\ ~config["gear-dry-run"]
    /\ result # Unbound
    /\ result[1].returncode = 0

\* C3 as stated: every finalized run exits with 0 or 1, 0 on full success
\* and 1 otherwise.
C3_ExitCodeZeroOrOne ==
    Finalized =>
        /\ exit_status \in {Bound(0), Bound(1)}
        /\ exit_status = Bound(0) <=> FullSuccess

\* C3 amended: the exit code is 0 exactly on full success; it is 1 when a
\* stage recorded an error or the dry-run path was taken; otherwise it is
\* the subprocess's own non-zero return code, which need not be 1.
C3_ExitCodeAmended ==
    Finalized =>
        /\ exit_status = Bound(0) <=> FullSuccess
        /\ (Len(Errors) > 0 \/ config["gear-dry-run"]) => exit_status = Bound(1)
        /\ (Len(Errors) = 0 /\ ~config["gear-dry-run"]) =>
              /\ ret = Bound(result[1].returncode)
              /\ exit_status = Bound(ExitStatus(result[1].returncode))

\* a clean run whose subprocess returned 3 ends with exit code 3
C3_Witness ==
    /\ pc = "exited"
    /\ Len(Errors) = 0
    /\ ~config["gear-dry-run"]
    /\ result[1].returncode = 3
    /\ exit_status = Bound(3)

\* C4: with gear-dry-run set, no subprocess is ever spawned, the result is
\* the made-up one with return code 1, and the run ends with exit code 1.
C4_DryRunNeverSpawns ==
    config["gear-dry-run"] =>
        /\ spawned = <<>>
        /\ Finalized =>
              /\ result = Bound(DryRunResult)
              /\ result[1].returncode = 1
              /\ exit_status = Bound(1)

\* a dry run after stages that recorded nothing: still exit code 1
C4_Witness ==
    /\ config["gear-dry-run"]
    /\ pc = "exited"
    /\ Len(Errors) = 0
    /\ spawned = <<>>
    /\ exit_status = Bound(1)

\* C5: once execute has run, zip_output has been called exactly once if
\* gear-save-all-output is set and never if it is not, on every path:
\* success, non-zero return, dry run, and an exception from the spawn.
C5_ArchiverOncePerRun ==
    /\ zipped <= 1
    /\ Finalized => zipped = (IF config["gear-save-all-output"] THEN 1 ELSE 0)
    /\ ~Finalized => zipped = 0

\* the spawn raised and the archiver still ran once
C5_Witness ==
    /\ pc = "crashed"
    /\ HasError(SpawnError)
    /\ config["gear-save-all-output"]
    /\ zipped = 1

\* C6: when the environment file cannot be read or parsed, the run ends in
\* initialize: no later stage is entered, no command is built, nothing is
\* spawned or archived, and no exit code is computed.
C6_EnvironFailureAborts ==
    environ_file.kind # "object" =>
        /\ pc \in {"initialize", "aborted"}
        /\ entered = <<>>
        /\ "command" \notin DOMAIN gear_dict
        /\ command = Unbound
        /\ spawned = <<>>
        /\ zipped = 0
        /\ ret = Unbound
        /\ msg = Unbound

\* the environment file held invalid JSON and initialize let it propagate
C6_Witness ==
    /\ manifest_ok
    /\ environ_file.kind = "malformed"
    /\ pc = "aborted"
    /\ "errors" \in DOMAIN gear_dict
    /\ exit_status = Bound(1)

\* C7: an error caught by create_command or set_up_data does not stop the
\* run: all three stages are entered once and in order, the error is still
\* recorded at the end, the exit code is 1, and the summary message that is
\* logged names the type of every recorded error.
C7_StageFailureSurfaces ==
    (Finalized /\ HasStageError) =>
        /\ entered = <<"create_command", "set_up_data", "execute">>
        /\ exit_status = Bound(1)
        /\ msg # Unbound
        /\ \A i \in 1..Len(Errors) :
              \E j \in 1..Len(msg[1]) : msg[1][j][1] = Errors[i].type

\* C8: when the spawn raises, the exception is recorded and finalization
\* still completes: an exit code is computed, the summary of the recorded
\* errors is logged, and the process ends through sys.exit with that code.
C8_FinalizationCompletes ==
    (Finalized /\ HasError(SpawnError)) =>
        /\ pc = "exited"
        /\ ret # Unbound
        /\ msg = Bound(PreviousErrors(Errors))
        /\ exit_status = Bound(ExitStatus(ret[1]))

C10_SpawnOnlyAfterValidate ==
    spawned # <<>> => validated

====
